---- MODULE Spec2Model ----
(***************************************************************************)
(* Model of itu_obs_pull.py: discovery of the course codes, round-robin    *)
(* partition over WORKER_COUNT browser sessions, the per-item              *)
(* select / click / read loop with its stale retries, the join of the      *)
(* workers and the final sort and CSV write.                               *)
(*                                                                         *)
(* Strings are sequences of Unicode code points, so that str.strip,        *)
(* str.replace and Python's string ordering are computed, not assumed.     *)
(***************************************************************************)
EXTENDS Integers, Sequences, FiniteSets, Bags, TLC

(* ---------------------------- bounds ---------------------------------- *)
\* longest list of options the site's dropdown shows
MaxItems == 2
\* largest configured WORKER_COUNT tried (0, 1, ..., MaxWorkers)
MaxWorkers == 2
\* number of faults (stale errors, other exceptions) the environment injects in one run
MaxFaults == 3
\* the same two bounds for the hand-over of the chunks alone (SpecPart)
PartMaxItems == 4
PartMaxWorkers == 4
\* the same two bounds for the run under unlimited failures (SpecLive)
LiveMaxItems == 1
LiveMaxWorkers == 2

\* retries=3 of select_course_code and collect_course_entries, range(3) of the click loop
Retries == 3
\* a row with fewer td cells is skipped
MinCells == 14

(* ---------------------------- strings --------------------------------- *)
NL == 10
SP == 32
SLASH == 47
\* characters str.strip() removes (ASCII whitespace)
Whitespace == {9, 10, 11, 12, 13, 28, 29, 30, 31, 32}

RECURSIVE LStrip(_)
LStrip(s) == IF s # <<>> /\ Head(s) \in Whitespace THEN LStrip(Tail(s)) ELSE s

RECURSIVE RStrip(_)
RStrip(s) ==
    IF s # <<>> /\ s[Len(s)] \in Whitespace
    THEN RStrip(SubSeq(s, 1, Len(s) - 1))
    ELSE s

\* str.strip()
Strip(s) == RStrip(LStrip(s))

\* str.replace("\n", " / ")
RECURSIVE ReplaceNL(_)
ReplaceNL(s) ==
    IF s = <<>> THEN <<>>
    ELSE IF Head(s) = NL THEN <<SP, SLASH, SP>> \o ReplaceNL(Tail(s))
    ELSE <<Head(s)>> \o ReplaceNL(Tail(s))

\* clean_text(text) = text.strip().replace("\n", " / ")
clean_text(text) == ReplaceNL(Strip(text))

\* Python's str <: code point by code point, a proper prefix is smaller
RECURSIVE StrLess(_, _)
StrLess(a, b) ==
    IF b = <<>> THEN FALSE
    ELSE IF a = <<>> THEN TRUE
    ELSE IF Head(a) # Head(b) THEN Head(a) < Head(b)
    ELSE StrLess(Tail(a), Tail(b))

(* ------------------------ reading one table --------------------------- *)
FizikselRaw == <<70, 105, 122, 105, 107, 115, 101, 108, 32, 40, 89, 252, 122, 32, 121, 252, 122, 101, 41>>
SanalRaw == <<83, 97, 110, 97, 108, 32, 40, 199, 101, 118, 114, 105, 109, 105, 231, 105, 47, 79, 110, 108, 105, 110, 101, 41>>
Fiziksel == <<70, 105, 122, 105, 107, 115, 101, 108>>
Online == <<79, 110, 108, 105, 110, 101>>

\* the comparison and the result taken from the cell text as it is
ogretim_yontemiUncleaned(cells) ==
    LET y == cells[4]
    IN  IF y = FizikselRaw THEN Fiziksel
        ELSE IF y = SanalRaw THEN Online
        ELSE y

\* lines 99-103: the delivery mode of a row
ogretim_yontemi(cells) ==
    LET y == clean_text(cells[4])
    IN  IF y = FizikselRaw THEN Fiziksel
        ELSE IF y = SanalRaw THEN Online
        ELSE y

\* lines 105-117: the dict built from the td cells of one row (cells[k] of the
\* source is cells[k+1] here)
ders_entry(cells) ==
    [ Kod       |-> clean_text(cells[2]),
      Ders      |-> clean_text(cells[3]),
      Yontem    |-> ogretim_yontemi(cells),
      Egitmen   |-> clean_text(cells[5]),
      Gun       |-> clean_text(cells[7]),
      Saat      |-> clean_text(cells[8]),
      Bina      |-> clean_text(cells[6]) \o <<SP, SLASH, SP>> \o clean_text(cells[9]),
      Kayitli   |-> clean_text(cells[11]),
      Kontenjan |-> clean_text(cells[10]),
      Sinirlama |-> clean_text(cells[13]),
      CRN       |-> clean_text(cells[1]) ]

\* x in list
InList(x, list) == \E k \in 1..Len(list) : list[k] = x

\* the loop without the test of line 120
RECURSIVE collect_rowsNoExclusion(_, _, _)
collect_rowsNoExclusion(rows, excluded, entries) ==
    IF rows = <<>> THEN entries
    ELSE LET cells == Head(rows)
         IN  IF Len(cells) < MinCells
             THEN collect_rowsNoExclusion(Tail(rows), excluded, entries)
             ELSE collect_rowsNoExclusion(Tail(rows), excluded,
                                          Append(entries, ders_entry(cells)))

\* break instead of continue at line 97: a short row ends the loop
RECURSIVE collect_rowsStopAtShort(_, _, _)
collect_rowsStopAtShort(rows, excluded, entries) ==
    IF rows = <<>> THEN entries
    ELSE LET cells == Head(rows)
         IN  IF Len(cells) < MinCells
             THEN entries
             ELSE IF InList(ders_entry(cells).Kod, excluded)
             THEN collect_rowsStopAtShort(Tail(rows), excluded, entries)
             ELSE collect_rowsStopAtShort(Tail(rows), excluded,
                                          Append(entries, ders_entry(cells)))

\* lines 91-123: the loop over rows[1:], appending to entries
RECURSIVE collect_rows(_, _, _)
collect_rows(rows, excluded, entries) ==
    IF rows = <<>> THEN entries
    ELSE LET cells == Head(rows)
         IN  IF Len(cells) < MinCells
             THEN collect_rows(Tail(rows), excluded, entries)
             ELSE IF InList(ders_entry(cells).Kod, excluded)
             THEN collect_rows(Tail(rows), excluded, entries)
             ELSE collect_rows(Tail(rows), excluded, Append(entries, ders_entry(cells)))

\* rows[1:]
DataRows(rows) == IF rows = <<>> THEN <<>> ELSE Tail(rows)

(* ----------------------------- sorting -------------------------------- *)
\* the key without the CRN: sort(key=lambda e: e.get("Kod", ""))
KeyLessKodOnly(e1, e2) == StrLess(e1.Kod, e2.Kod)

\* the key of line 271 and Python's tuple comparison
KeyLess(e1, e2) ==
    \/ StrLess(e1.Kod, e2.Kod)
    \/ e1.Kod = e2.Kod /\ StrLess(e1.CRN, e2.CRN)

\* insert e behind every element whose key is not greater (stable)
RECURSIVE InsertStable(_, _)
InsertStable(e, sorted) ==
    IF sorted = <<>> THEN <<e>>
    ELSE IF KeyLess(e, Head(sorted)) THEN <<e>> \o sorted
    ELSE <<Head(sorted)>> \o InsertStable(e, Tail(sorted))

\* list.sort(key=...): stable, ascending
RECURSIVE SortEntries(_)
SortEntries(list) ==
    IF list = <<>> THEN <<>>
    ELSE InsertStable(list[Len(list)], SortEntries(SubSeq(list, 1, Len(list) - 1)))

(* ---------------------------- partition ------------------------------- *)
Min(a, b) == IF a < b THEN a ELSE b

\* every code appended to chunks[0]
RECURSIVE AppendAllToFirst(_, _, _, _)
AppendAllToFirst(chunks, items, idx, worker_count) ==
    IF idx >= Len(items) THEN chunks
    ELSE AppendAllToFirst([chunks EXCEPT ![0] = Append(@, items[idx + 1])],
                          items, idx + 1, worker_count)

\* lines 240-242: chunks[idx % worker_count].append(kod), idx from 0
RECURSIVE AppendRoundRobin(_, _, _, _)
AppendRoundRobin(chunks, items, idx, worker_count) ==
    IF idx >= Len(items) THEN chunks
    ELSE AppendRoundRobin(
            [chunks EXCEPT ![idx % worker_count] = Append(@, items[idx + 1])],
            items, idx + 1, worker_count)

\* the enumeration started at the second code
MakeChunksSkipFirst(items, worker_count) ==
    AppendRoundRobin([i \in 0..(worker_count - 1) |-> <<>>], items, 1, worker_count)

MakeChunks(items, worker_count) ==
    AppendRoundRobin([i \in 0..(worker_count - 1) |-> <<>>], items, 0, worker_count)

(* --------------------------- the site --------------------------------- *)
\* three course codes of the dropdown: "AKM", "BLG", "MAT"
AKM == <<65, 75, 77>>
BLG == <<66, 76, 71>>
MAT == <<77, 65, 84>>
Codes == {AKM, BLG, MAT}

\* full course codes of the table: "A1", "B2", "X9"
KodA == <<65, 49>>
KodB == <<66, 50>>
KodX == <<88, 57>>

\* a tr with 14 td cells; cells 11 and 13 of the page are not read
RawRow(crn, kod, ders, yontem, bina1, bina2) ==
    << crn, kod, ders, yontem, <<84>>, bina1, <<80>>, <<57>>, bina2,
       <<51, 48>>, <<50>>, <<>>, <<>>, <<>> >>

\* the header tr has th cells only; a tr of 13 td cells is malformed
HeaderRow == <<>>
\* a header tr that is built of 14 td cells
HeaderCells == RawRow(<<67, 82, 78>>, <<75, 111, 100>>, <<68>>, <<89>>, <<66>>, <<66>>)
ShortRow == [k \in 1..(MinCells - 1) |-> <<63>>]

\* what the page shows after select + click of a code: the tr list
TableOf(ders_kodu) ==
    IF ders_kodu = AKM THEN
        << HeaderRow,
           RawRow(<<49, 48>>, <<SP, 65, 49, SP>>, <<100>>, FizikselRaw, <<77>>, <<49>>),
           ShortRow,
           RawRow(<<49, 49>>, KodA, <<100, NL, 101>>, <<72, NL, 73>>, <<77>>, <<>>) >>
    ELSE IF ders_kodu = BLG THEN
        << HeaderRow,
           RawRow(<<53>>, KodB, <<101>>, SanalRaw, <<>>, <<>>),
           RawRow(<<55>>, KodX, <<103>>, FizikselRaw, <<NL, 78>>, <<50>>) >>
    ELSE IF ders_kodu = MAT THEN
        << HeaderCells,
           RawRow(<<53>>, KodB, <<102>>, <<SP>> \o FizikselRaw \o <<NL>>, <<77>>, <<51>>) >>
    ELSE <<>>

\* the option elements of the dropdown: the placeholder has no value
Placeholder == [text |-> <<83, 101, 231>>, value |-> <<>>]
OptionOf(code) == [text |-> <<SP>> \o code \o <<NL>>, value |-> code]

RECURSIVE SeqsUpTo(_, _)
SeqsUpTo(S, n) ==
    IF n = 0 THEN {<<>>}
    ELSE LET shorter == SeqsUpTo(S, n - 1)
         IN  shorter \cup {Append(q, x) : q \in shorter, x \in S}

(* ----------------------------- state ---------------------------------- *)
VARIABLES
    WORKER_COUNT,     \* line 34
    excluded_codes,   \* line 31
    options,          \* the option elements the page shows in dersBransKoduId
    pc,               \* where main() (and get_all_course_codes inside it) is
    d_drv,            \* the driver of get_all_course_codes: "none", "open", "closed"
    d_quits,          \* how often it was quit
    ders_kodlari,     \* line 227
    chunks,           \* line 240
    launched,         \* the keys' values of future_to_idx
    handled,          \* the futures the as_completed loop has gone through, in order
    all_entries,      \* line 230
    csv,              \* the file: [written, rows]
    w,                \* per worker: the frame of its scrape_chunk call
    w_chunk,          \* per worker: the argument of scrape_chunk
    drv,              \* per worker: its driver: "none", "open", "closed"
    quits,            \* per worker: how often its driver was quit
    misuse,           \* a driver was used while not open
    faults,           \* faults injected so far
    limited           \* whether the environment stops failing after MaxFaults faults

vars == << WORKER_COUNT, excluded_codes, options, pc, d_drv, d_quits, ders_kodlari,
           chunks, launched, handled, all_entries, csv, w, w_chunk, drv, quits,
           misuse, faults, limited >>

config == << WORKER_COUNT, excluded_codes, options, limited >>
mainvars == << ders_kodlari, chunks, launched, handled, all_entries, csv >>
discvars == << d_drv, d_quits >>
workervars == << w, w_chunk, drv, quits >>

Max(a, b) == IF a > b THEN a ELSE b

\* the pool never has more threads than the largest WORKER_COUNT tried
WorkerIds == 0..(Max(Max(MaxWorkers, PartMaxWorkers), LiveMaxWorkers) - 1)

\* the frame of a scrape_chunk call that has not started
IdleFrame ==
    [ pc |-> "idle", pos |-> 0, sel |-> 0, clk |-> 0, rd |-> 0,
      entries |-> <<>>, local |-> <<>>, outcome |-> "none" ]

\* what main() starts from, for a configuration and a page
Start(workerCounts, maxItems, budget) ==
    /\ WORKER_COUNT \in workerCounts
    /\ excluded_codes \in {<<>>, <<KodX>>}
    /\ \E items \in SeqsUpTo(Codes, maxItems) :
          options = <<Placeholder>> \o [k \in 1..Len(items) |-> OptionOf(items[k])]
    /\ pc = "d_create"
    /\ d_drv = "none"
    /\ d_quits = 0
    /\ ders_kodlari = <<>>
    /\ chunks = <<>>
    /\ launched = {}
    /\ handled = <<>>
    /\ all_entries = <<>>
    /\ csv = [written |-> FALSE, rows |-> <<>>]
    /\ w = [i \in WorkerIds |-> IdleFrame]
    /\ w_chunk = [i \in WorkerIds |-> <<>>]
    /\ drv = [i \in WorkerIds |-> "none"]
    /\ quits = [i \in WorkerIds |-> 0]
    /\ misuse = FALSE
    /\ faults = 0
    /\ limited = budget

Init == Start(0..MaxWorkers, MaxItems, TRUE)

\* the environment may make this call fail
Fault ==
    IF limited
    THEN faults < MaxFaults /\ faults' = faults + 1
    ELSE faults' = faults
NoFault == faults' = faults

(* ------------------------ get_all_course_codes ------------------------ *)
\* lines 152-156
RECURSIVE OptionTexts(_)
OptionTexts(opts) ==
    IF opts = <<>> THEN <<>>
    ELSE IF Head(opts).value # <<>>
         THEN <<Strip(Head(opts).text)>> \o OptionTexts(Tail(opts))
         ELSE OptionTexts(Tail(opts))

\* line 133: create_driver() either gives a driver or raises out of main
DiscCreate ==
    /\ pc = "d_create"
    /\ \/ NoFault /\ d_drv' = "open" /\ pc' = "d_body"
       \/ Fault /\ d_drv' = d_drv /\ pc' = "crashed"
    /\ UNCHANGED << config, d_quits, mainvars, workervars, misuse >>

\* lines 135-157: the page is loaded and the options are read, or a wait times out
DiscBody ==
    /\ pc = "d_body"
    /\ misuse' = (misuse \/ d_drv # "open")
    /\ \/ NoFault /\ ders_kodlari' = OptionTexts(options) /\ pc' = "d_quit"
       \/ Fault /\ ders_kodlari' = ders_kodlari /\ pc' = "d_quit_exc"
    /\ UNCHANGED << config, discvars, chunks, launched, handled, all_entries, csv,
                    workervars >>

\* lines 158-159: finally driver.quit(), then the return or the pending exception
DiscQuit ==
    /\ pc \in {"d_quit", "d_quit_exc"}
    /\ d_drv' = "closed"
    /\ d_quits' = d_quits + 1
    /\ pc' = IF pc = "d_quit" THEN "branch" ELSE "crashed"
    /\ UNCHANGED << config, mainvars, workervars, misuse, faults >>

(* ---------------------------- scrape_chunk ---------------------------- *)
\* a failed code ends the loop (break) instead of going on with the next one
NextItemBreak(f, chunk, how) ==
    [ f EXCEPT !.outcome = how,
               !.pos = f.pos + 1,
               !.sel = 0, !.clk = 0, !.rd = 0,
               !.local = <<>>,
               !.pc = IF f.pos + 1 < Len(chunk) /\ how \in {"fetched", "empty"}
                      THEN "select" ELSE "quit" ]

\* the end of one iteration of the loop of line 183 (a continue, or falling
\* off the body): the next code of the chunk, or the finally block
NextItem(f, chunk, how) ==
    [ f EXCEPT !.outcome = how,
               !.pos = f.pos + 1,
               !.sel = 0, !.clk = 0, !.rd = 0,
               !.local = <<>>,
               !.pc = IF f.pos + 1 < Len(chunk) THEN "select" ELSE "quit" ]

\* lines 162-168: the empty chunk returns at once; else create_driver() gives a
\* driver or raises before the try block is entered
WorkerStart(i) ==
    /\ w[i].pc = "create"
    /\ \/ /\ w_chunk[i] = <<>>
          /\ NoFault
          /\ w' = [w EXCEPT ![i].pc = "returned"]
          /\ drv' = drv
       \/ /\ w_chunk[i] # <<>>
          /\ NoFault
          /\ w' = [w EXCEPT ![i].pc = "setup"]
          /\ drv' = [drv EXCEPT ![i] = "open"]
       \/ /\ w_chunk[i] # <<>>
          /\ Fault
          /\ w' = [w EXCEPT ![i].pc = "raised"]
          /\ drv' = drv
    /\ UNCHANGED << config, pc, discvars, mainvars, w_chunk, quits, misuse >>

\* lines 170-181: page load and the Lisans selection; an exception goes to finally
WorkerSetup(i) ==
    /\ w[i].pc = "setup"
    /\ misuse' = (misuse \/ drv[i] # "open")
    /\ \/ NoFault /\ w' = [w EXCEPT ![i].pc = "select"]
       \/ Fault /\ w' = [w EXCEPT ![i].pc = "quit_exc"]
    /\ UNCHANGED << config, pc, discvars, mainvars, w_chunk, drv, quits >>

\* select_course_code with a loop that goes on until the selection succeeds
WorkerSelectUntilSuccess(i) ==
    /\ w[i].pc = "select"
    /\ misuse' = (misuse \/ drv[i] # "open")
    /\ \/ /\ NoFault
          /\ w' = [w EXCEPT ![i].sel = @ + 1, ![i].pc = "click"]
       \/ /\ Fault
          /\ w' = [w EXCEPT ![i].sel = (@ + 1) % Retries]
       \/ /\ Fault
          /\ w' = [w EXCEPT ![i] = NextItem(w[i], w_chunk[i], "error")]
    /\ UNCHANGED << config, pc, discvars, mainvars, w_chunk, drv, quits >>

\* select_course_code with the loop one attempt short: range(retries - 1)
WorkerSelectTwoTries(i) ==
    /\ w[i].pc = "select"
    /\ misuse' = (misuse \/ drv[i] # "open")
    /\ \/ /\ NoFault
          /\ w' = [w EXCEPT ![i].sel = @ + 1, ![i].pc = "click"]
       \/ /\ Fault
          /\ w' = [w EXCEPT ![i] =
                      IF w[i].sel + 1 < Retries - 1
                      THEN [w[i] EXCEPT !.sel = @ + 1]
                      ELSE NextItem(w[i], w_chunk[i], "select_stale")]
       \/ /\ Fault
          /\ w' = [w EXCEPT ![i] = NextItem(w[i], w_chunk[i], "error")]
    /\ UNCHANGED << config, pc, discvars, mainvars, w_chunk, drv, quits >>

\* lines 66-76 and 186-190: one attempt of select_course_code for the current code
WorkerSelect(i) ==
    /\ w[i].pc = "select"
    /\ misuse' = (misuse \/ drv[i] # "open")
    /\ \/ /\ NoFault
          /\ w' = [w EXCEPT ![i].sel = @ + 1, ![i].pc = "click"]
       \/ /\ Fault      \* StaleElementReferenceException
          /\ w' = [w EXCEPT ![i] =
                      IF w[i].sel + 1 < Retries
                      THEN [w[i] EXCEPT !.sel = @ + 1]
                      ELSE NextItem(w[i], w_chunk[i], "select_stale")]
       \/ /\ Fault      \* any other exception: line 215
          /\ w' = [w EXCEPT ![i] = NextItem(w[i], w_chunk[i], "error")]
    /\ UNCHANGED << config, pc, discvars, mainvars, w_chunk, drv, quits >>

\* a stale click starts the code over: the code is selected again
WorkerClickReselect(i) ==
    /\ w[i].pc = "click"
    /\ misuse' = (misuse \/ drv[i] # "open")
    /\ \/ /\ NoFault
          /\ w' = [w EXCEPT ![i].clk = @ + 1, ![i].pc = "read"]
       \/ /\ Fault
          /\ w' = [w EXCEPT ![i] =
                      IF w[i].clk + 1 < 3
                      THEN [w[i] EXCEPT !.clk = @ + 1, !.pc = "select", !.sel = 0]
                      ELSE NextItem(w[i], w_chunk[i], "click_stale")]
       \/ /\ Fault
          /\ w' = [w EXCEPT ![i] = NextItem(w[i], w_chunk[i], "error")]
    /\ UNCHANGED << config, pc, discvars, mainvars, w_chunk, drv, quits >>

\* lines 194-205: one attempt of the click on the Goster button
WorkerClick(i) ==
    /\ w[i].pc = "click"
    /\ misuse' = (misuse \/ drv[i] # "open")
    /\ \/ /\ NoFault
          /\ w' = [w EXCEPT ![i].clk = @ + 1, ![i].pc = "read"]
       \/ /\ Fault      \* StaleElementReferenceException
          /\ w' = [w EXCEPT ![i] =
                      IF w[i].clk + 1 < 3
                      THEN [w[i] EXCEPT !.clk = @ + 1]
                      ELSE NextItem(w[i], w_chunk[i], "click_stale")]
       \/ /\ Fault      \* any other exception: line 215
          /\ w' = [w EXCEPT ![i] = NextItem(w[i], w_chunk[i], "error")]
    /\ UNCHANGED << config, pc, discvars, mainvars, w_chunk, drv, quits >>

\* entries = [] of line 90 set once, before the retry loop: an attempt goes on
\* from the rows the interrupted one gathered
WorkerReadKeepPartial(i) ==
    /\ w[i].pc = "read"
    /\ misuse' = (misuse \/ drv[i] # "open")
    /\ LET f == w[i]
           data == DataRows(TableOf(w_chunk[i][f.pos + 1]))
           LastStale == IF data = <<>> THEN 0 ELSE Len(data) - 1
       IN  \/ /\ NoFault
              /\ LET ders_entries == collect_rows(data, excluded_codes, f.local)
                 IN  w' = [w EXCEPT ![i] =
                             IF ders_entries = <<>>
                             THEN NextItem(f, w_chunk[i], "empty")
                             ELSE NextItem([f EXCEPT !.entries = @ \o ders_entries],
                                           w_chunk[i], "fetched")]
           \/ /\ Fault
              /\ \E j \in 0..LastStale :
                    w' = [w EXCEPT ![i] =
                            IF f.rd + 1 < Retries
                            THEN [f EXCEPT !.rd = @ + 1,
                                           !.local = collect_rows(SubSeq(data, 1, j),
                                                                  excluded_codes, f.local)]
                            ELSE NextItem(f, w_chunk[i], "read_stale")]
           \/ /\ Fault
              /\ w' = [w EXCEPT ![i] = NextItem(f, w_chunk[i], "error")]
    /\ UNCHANGED << config, pc, discvars, mainvars, w_chunk, drv, quits >>

\* lines 86-128 and 209-214: one attempt of collect_course_entries. The attempt
\* starts from entries = [] (line 90); it reads every row, or goes stale after
\* j data rows, or raises something else
WorkerRead(i) ==
    /\ w[i].pc = "read"
    /\ misuse' = (misuse \/ drv[i] # "open")
    /\ LET f == w[i]
           data == DataRows(TableOf(w_chunk[i][f.pos + 1]))
           LastStale == IF data = <<>> THEN 0 ELSE Len(data) - 1
       IN  \/ /\ Fault      \* any other exception: line 215
              /\ w' = [w EXCEPT ![i] = NextItem(f, w_chunk[i], "error")]
           \/ /\ NoFault
              /\ LET ders_entries == collect_rows(data, excluded_codes, <<>>)
                 IN  w' = [w EXCEPT ![i] =
                             IF ders_entries = <<>>
                             THEN NextItem(f, w_chunk[i], "empty")
                             ELSE NextItem([f EXCEPT !.entries = @ \o ders_entries],
                                           w_chunk[i], "fetched")]
           \/ /\ Fault      \* StaleElementReferenceException at row j + 1
              /\ \E j \in 0..LastStale :
                    w' = [w EXCEPT ![i] =
                            IF f.rd + 1 < Retries
                            THEN [f EXCEPT !.rd = @ + 1,
                                           !.local = collect_rows(SubSeq(data, 1, j),
                                                                  excluded_codes, <<>>)]
                            ELSE NextItem(f, w_chunk[i], "read_stale")]
    /\ UNCHANGED << config, pc, discvars, mainvars, w_chunk, drv, quits >>

\* an except clause around the body: the exception is swallowed, entries returned
WorkerQuitSwallow(i) ==
    /\ w[i].pc \in {"quit", "quit_exc"}
    /\ drv' = [drv EXCEPT ![i] = "closed"]
    /\ quits' = [quits EXCEPT ![i] = @ + 1]
    /\ w' = [w EXCEPT ![i].pc = "returned"]
    /\ UNCHANGED << config, pc, discvars, mainvars, w_chunk, misuse, faults >>

\* driver.quit() after the try block instead of in a finally: skipped by an exception
WorkerQuitNoFinally(i) ==
    /\ w[i].pc \in {"quit", "quit_exc"}
    /\ drv' = IF w[i].pc = "quit" THEN [drv EXCEPT ![i] = "closed"] ELSE drv
    /\ quits' = IF w[i].pc = "quit" THEN [quits EXCEPT ![i] = @ + 1] ELSE quits
    /\ w' = [w EXCEPT ![i].pc = IF w[i].pc = "quit" THEN "returned" ELSE "raised"]
    /\ UNCHANGED << config, pc, discvars, mainvars, w_chunk, misuse, faults >>

\* lines 218-221: finally driver.quit(), then return entries or the pending exception
WorkerQuit(i) ==
    /\ w[i].pc \in {"quit", "quit_exc"}
    /\ drv' = [drv EXCEPT ![i] = "closed"]
    /\ quits' = [quits EXCEPT ![i] = @ + 1]
    /\ w' = [w EXCEPT ![i].pc = IF w[i].pc = "quit" THEN "returned" ELSE "raised"]
    /\ UNCHANGED << config, pc, discvars, mainvars, w_chunk, misuse, faults >>

(* -------------------------------- main -------------------------------- *)
\* lines 232-237: nothing found, one synchronous scrape_chunk, or the pool
MainBranch ==
    /\ pc = "branch"
    /\ IF ders_kodlari = <<>>
       THEN /\ pc' = "write"
            /\ UNCHANGED << w, w_chunk >>
       ELSE IF WORKER_COUNT <= 1
       THEN /\ pc' = "single"
            /\ w' = [w EXCEPT ![0].pc = "create"]
            /\ w_chunk' = [w_chunk EXCEPT ![0] = ders_kodlari]
       ELSE /\ pc' = "partition"
            /\ UNCHANGED << w, w_chunk >>
    /\ UNCHANGED << config, discvars, mainvars, drv, quits, misuse, faults >>

\* line 236: the result of the synchronous call, or its exception leaving main
MainSingleDone ==
    /\ pc = "single"
    /\ \/ /\ w[0].pc = "returned"
          /\ all_entries' = w[0].entries
          /\ pc' = "write"
       \/ /\ w[0].pc = "raised"
          /\ all_entries' = all_entries
          /\ pc' = "crashed"
    /\ UNCHANGED << config, discvars, ders_kodlari, chunks, launched, handled, csv,
                    workervars, misuse, faults >>

\* lines 239-242
MainPartition ==
    /\ pc = "partition"
    /\ chunks' = MakeChunks(ders_kodlari, Min(WORKER_COUNT, Len(ders_kodlari)))
    /\ pc' = "submit"
    /\ UNCHANGED << config, discvars, ders_kodlari, launched, handled, all_entries,
                    csv, workervars, misuse, faults >>

\* lines 250-255: one future per non-empty chunk
MainSubmit ==
    /\ pc = "submit"
    /\ launched' = {i \in DOMAIN chunks : chunks[i] # <<>>}
    /\ w_chunk' = [i \in WorkerIds |-> IF i \in launched' THEN chunks[i] ELSE w_chunk[i]]
    /\ w' = [i \in WorkerIds |-> IF i \in launched' THEN [w[i] EXCEPT !.pc = "create"]
                                                     ELSE w[i]]
    /\ pc' = "join"
    /\ UNCHANGED << config, discvars, ders_kodlari, chunks, handled, all_entries, csv,
                    drv, quits, misuse, faults >>

Range(q) == {q[k] : k \in 1..Len(q)}

\* all_entries = result instead of all_entries.extend(result)
MainHandleOverwrite(i) ==
    /\ pc = "join"
    /\ i \in launched
    /\ i \notin Range(handled)
    /\ w[i].pc \in {"returned", "raised"}
    /\ handled' = Append(handled, i)
    /\ all_entries' = IF w[i].pc = "returned" THEN w[i].entries ELSE all_entries
    /\ pc' = IF Len(handled') = Cardinality(launched) THEN "write" ELSE "join"
    /\ UNCHANGED << config, discvars, ders_kodlari, chunks, launched, csv,
                    workervars, misuse, faults >>

\* the loop left after the first finished future, the pool not waited for
MainHandleFirstOnly(i) ==
    /\ pc = "join"
    /\ i \in launched
    /\ i \notin Range(handled)
    /\ w[i].pc \in {"returned", "raised"}
    /\ handled' = Append(handled, i)
    /\ all_entries' = IF w[i].pc = "returned" THEN all_entries \o w[i].entries
                                                ELSE all_entries
    /\ pc' = "write"
    /\ UNCHANGED << config, discvars, ders_kodlari, chunks, launched, csv,
                    workervars, misuse, faults >>

\* lines 256-266: as_completed hands over a finished future; its result is
\* appended, its exception is caught. After the last one the with block ends
MainHandle(i) ==
    /\ pc = "join"
    /\ i \in launched
    /\ i \notin Range(handled)
    /\ w[i].pc \in {"returned", "raised"}
    /\ handled' = Append(handled, i)
    /\ all_entries' = IF w[i].pc = "returned" THEN all_entries \o w[i].entries
                                                ELSE all_entries
    /\ pc' = IF Len(handled') = Cardinality(launched) THEN "write" ELSE "join"
    /\ UNCHANGED << config, discvars, ders_kodlari, chunks, launched, csv,
                    workervars, misuse, faults >>

\* the file opened and the header written before the test of line 269
MainWriteAlways ==
    /\ pc = "write"
    /\ all_entries' = IF all_entries # <<>> THEN SortEntries(all_entries) ELSE all_entries
    /\ csv' = [written |-> TRUE, rows |-> all_entries']
    /\ pc' = "done"
    /\ UNCHANGED << config, discvars, ders_kodlari, chunks, launched, handled,
                    workervars, misuse, faults >>

\* lines 269-299: sort and write the file, or report that nothing was found
MainWrite ==
    /\ pc = "write"
    /\ IF all_entries # <<>>
       THEN /\ all_entries' = SortEntries(all_entries)
            /\ csv' = [written |-> TRUE, rows |-> all_entries']
       ELSE UNCHANGED << all_entries, csv >>
    /\ pc' = "done"
    /\ UNCHANGED << config, discvars, ders_kodlari, chunks, launched, handled,
                    workervars, misuse, faults >>

Next ==
    \/ DiscCreate
    \/ DiscBody
    \/ DiscQuit
    \/ MainBranch
    \/ MainSingleDone
    \/ MainPartition
    \/ MainSubmit
    \/ \E i \in WorkerIds : MainHandle(i)
    \/ MainWrite
    \/ \E i \in WorkerIds : WorkerStart(i)
    \/ \E i \in WorkerIds : WorkerSetup(i)
    \/ \E i \in WorkerIds : WorkerSelect(i)
    \/ \E i \in WorkerIds : WorkerClick(i)
    \/ \E i \in WorkerIds : WorkerRead(i)
    \/ \E i \in WorkerIds : WorkerQuit(i)

Spec == Init /\ [][Next]_vars

(* the run under an environment that may fail any call any number of times: *)
(* the main thread and every pool thread keep being scheduled while they    *)
(* have a step to take (each external call returns or raises)               *)
Main ==
    \/ DiscCreate
    \/ DiscBody
    \/ DiscQuit
    \/ MainBranch
    \/ MainSingleDone
    \/ MainPartition
    \/ MainSubmit
    \/ \E i \in WorkerIds : MainHandle(i)
    \/ MainWrite

Worker(i) ==
    \/ WorkerStart(i)
    \/ WorkerSetup(i)
    \/ WorkerSelect(i)
    \/ WorkerClick(i)
    \/ WorkerRead(i)
    \/ WorkerQuit(i)

InitLive == Start(1..LiveMaxWorkers, LiveMaxItems, FALSE)

\* max_workers=worker_count: the pool has the threads 0 .. WORKER_COUNT - 1
SpecLive ==
    /\ InitLive
    /\ [][Next]_vars
    /\ WF_vars(Main)
    /\ \A i \in 0..(LiveMaxWorkers - 1) : WF_vars(Worker(i))

(* the run up to the hand-over of the chunks: discovery, the branch of line  *)
(* 232, the partition and the submission, over longer lists and more workers *)
InitPart == Start(-1..PartMaxWorkers, PartMaxItems, TRUE)

NextPart ==
    \/ DiscCreate
    \/ DiscBody
    \/ DiscQuit
    \/ MainBranch
    \/ MainPartition
    \/ MainSubmit

SpecPart == InitPart /\ [][NextPart]_vars

(* ------------------------------ claims -------------------------------- *)
\* the scrape_chunk calls that were made, and in which order their chunks lie
Started == {i \in WorkerIds : w[i].pc # "idle"}
HandedOver == pc \in {"single", "join"}

RECURSIVE AscendingIds(_)
AscendingIds(S) ==
    IF S = {} THEN <<>>
    ELSE LET m == CHOOSE x \in S : \A y \in S : x <= y
         IN  <<m>> \o AscendingIds(S \ {m})

LongestChunk == IF Started = {} THEN 0
                ELSE CHOOSE n \in 0..Len(ders_kodlari) :
                        /\ \A i \in Started : Len(w_chunk[i]) <= n
                        /\ \E i \in Started : Len(w_chunk[i]) = n

\* chunk 0 item 0, chunk 1 item 0, ..., chunk 0 item 1, ...
RECURSIVE Interleaved(_, _)
Interleaved(ids, t) ==
    IF ids = <<>> \/ t >= LongestChunk * Len(ids) THEN <<>>
    ELSE LET c == w_chunk[ids[(t % Len(ids)) + 1]]
             r == (t \div Len(ids)) + 1
         IN  (IF r <= Len(c) THEN <<c[r]>> ELSE <<>>) \o Interleaved(ids, t + 1)

\* how often code occurs in list
Occurrences(code, list) == Cardinality({k \in 1..Len(list) : list[k] = code})

RECURSIVE SumOver(_, _)
SumOver(S, code) ==
    IF S = {} THEN 0
    ELSE LET i == CHOOSE x \in S : TRUE
         IN  Occurrences(code, w_chunk[i]) + SumOver(S \ {i}, code)

\* C1: once the chunks are handed to scrape_chunk, they cover ders_kodlari
\* exactly: every code occurs in the chunks as often as in ders_kodlari, the
\* chunk lengths add up to its length, and the chunks read interleaved (chunk 0
\* item 0, chunk 1 item 0, ...) are ders_kodlari again.
C1_ExactCover ==
    HandedOver =>
        /\ \A code \in Codes : SumOver(Started, code) = Occurrences(code, ders_kodlari)
        /\ Interleaved(AscendingIds(Started), 0) = ders_kodlari

C1_Witness ==
    /\ pc = "join"
    /\ Cardinality(Started) = 3
    /\ Len(ders_kodlari) = 4
    /\ Len(w_chunk[0]) = 2
    /\ w_chunk[0][1] # w_chunk[0][2]

\* C2 as stated: the number of scrape_chunk calls is min(WORKER_COUNT, L), no
\* chunk is empty, two chunk sizes differ by at most 1.
C2_Original ==
    HandedOver =>
        /\ Cardinality(Started) = Min(WORKER_COUNT, Len(ders_kodlari))
        /\ \A i \in Started : w_chunk[i] # <<>>
        /\ \A i, j \in Started : Len(w_chunk[i]) - Len(w_chunk[j]) <= 1

\* C2 amended: the number of scrape_chunk calls is min(max(WORKER_COUNT, 1), L)
\* (a WORKER_COUNT of 1 or less runs one call over the whole list), no chunk
\* is empty, two chunk sizes differ by at most 1.
C2_ChunkCount ==
    HandedOver =>
        /\ Cardinality(Started) = Min(Max(WORKER_COUNT, 1), Len(ders_kodlari))
        /\ \A i \in Started : w_chunk[i] # <<>>
        /\ \A i, j \in Started : Len(w_chunk[i]) - Len(w_chunk[j]) <= 1

C2_Witness ==
    /\ pc = "single"
    /\ WORKER_COUNT = 0
    /\ Started = {0}
    /\ Len(w_chunk[0]) = 3

\* (Kod, CRN) of r1 is at most (Kod, CRN) of r2, as pairs of strings
PairLeq(r1, r2) ==
    \/ StrLess(r1.Kod, r2.Kod)
    \/ r1.Kod = r2.Kod /\ (r1.CRN = r2.CRN \/ StrLess(r1.CRN, r2.CRN))

Ascending(rows) == \A k \in 1..(Len(rows) - 1) : PairLeq(rows[k], rows[k + 1])

\* C3: in every run that produces records, whatever the order in which the
\* workers were handled and whichever of them failed, the rows handed to the
\* writer are in ascending order of (Kod, CRN).
C3_OutputSorted ==
    pc = "done" /\ all_entries # <<>> =>
        /\ csv.written
        /\ csv.rows = all_entries
        /\ Ascending(csv.rows)

C3_Witness ==
    /\ pc = "done"
    /\ handled = <<0, 1>>
    /\ ders_kodlari = <<BLG, AKM>>
    /\ Len(csv.rows) = 4
    /\ csv.rows[1].Kod = KodA

\* the batches of the workers that returned, concatenated in the given order
RECURSIVE Batches(_)
Batches(order) ==
    IF order = <<>> THEN <<>>
    ELSE (IF w[Head(order)].pc = "returned" THEN w[Head(order)].entries ELSE <<>>)
         \o Batches(Tail(order))

\* what lines 269-271 make of a merged list
FinalOf(merged) == IF merged = <<>> THEN <<>> ELSE SortEntries(merged)

RECURSIVE Reversed(_)
Reversed(q) == IF q = <<>> THEN <<>> ELSE Append(Reversed(Tail(q)), Head(q))

\* C4: the final record sequence does not depend on the order in which the
\* workers complete: the run in which the same workers return the same batches
\* in the reversed order ends with the same sequence, also when two workers
\* return records of equal (Kod, CRN) that differ elsewhere.
C4_OrderIndependent ==
    pc = "done" /\ launched # {} =>
        all_entries = FinalOf(Batches(Reversed(handled)))

\* C5: a failure that escapes a scrape_chunk call never ends the run, for any
\* WORKER_COUNT: main ends abnormally only when get_all_course_codes failed,
\* that is, before any scrape_chunk call was made.
C5_OnlyDiscoveryIsFatal ==
    pc = "crashed" => Started = {}

\* this worker takes a step
Steps(i) == w'[i] # w[i]

\* C6 as stated: when the setup of lines 170-181 fails, scrape_chunk quits the
\* driver and returns normally, with the empty list.
C6_Original ==
    [][\A i \in WorkerIds :
          w[i].pc = "quit_exc" /\ Steps(i) =>
              w'[i].pc = "returned" /\ w'[i].entries = <<>> /\ drv'[i] = "closed"]_vars

\* C6 amended: when the setup fails, scrape_chunk quits the driver (once) and
\* then ends with the setup's error; it returns nothing.
C6_SetupFailureRaises ==
    [][\A i \in WorkerIds :
          /\ w[i].pc = "setup" /\ Steps(i) /\ faults' > faults =>
                w'[i].pc = "quit_exc" /\ drv'[i] = "open"
          /\ w[i].pc = "quit_exc" /\ Steps(i) =>
                /\ w'[i].pc = "raised"
                /\ w'[i].entries = <<>>
                /\ drv'[i] = "closed"
                /\ quits'[i] = 1]_vars

C6_Witness ==
    \E i \in WorkerIds : w[i].pc = "raised" /\ drv[i] = "closed" /\ pc = "join"

\* C7: every driver that was created is quit exactly once on every way out, and
\* none is used after its quit: no driver is quit twice or used while not open,
\* a closed driver was quit once, and when main has ended (normally or not) no
\* driver is open.
C7_SessionsClosedOnce ==
    /\ ~misuse
    /\ d_quits = (IF d_drv = "closed" THEN 1 ELSE 0)
    /\ \A i \in WorkerIds : quits[i] = (IF drv[i] = "closed" THEN 1 ELSE 0)
    /\ \A i \in WorkerIds : w[i].pc \in {"returned", "raised"} => drv[i] # "open"
    /\ pc \notin {"d_create", "d_body", "d_quit", "d_quit_exc"} => d_drv # "open"
    /\ pc \in {"done", "crashed"} =>
          d_drv # "open" /\ \A i \in WorkerIds : drv[i] # "open"

C7_Witness ==
    /\ pc = "done"
    /\ d_drv = "closed"
    /\ \E i, j \in WorkerIds :
          /\ w[i].pc = "raised" /\ drv[i] = "closed"
          /\ w[j].pc = "returned" /\ drv[j] = "closed" /\ w[j].outcome = "error"

\* the rows the table of the current code of worker i gives
RowsOfCurrent(i) ==
    collect_rows(DataRows(TableOf(w_chunk[i][w[i].pos + 1])), excluded_codes, <<>>)

\* C8: a select that went stale k times in a row is tried again while k <= 2
\* (never a fourth time), and when it then succeeds the code goes on to the
\* click and, read without a fault, yields its rows; at the third stale
\* select the code yields nothing, is neither clicked nor read, and the worker
\* goes on with the next code of its chunk (or ends its loop).
C8_SelectBudget ==
    [][\A i \in WorkerIds :
          /\ w[i].pc = "select" => w[i].sel <= 2
          /\ w[i].pc = "select" /\ Steps(i) /\ faults' = faults =>
                /\ w'[i].pc = "click"
                /\ w'[i].pos = w[i].pos
                /\ w'[i].sel = w[i].sel + 1
          /\ w[i].pc = "select" /\ Steps(i) /\ faults' > faults
                /\ w'[i].outcome # "error" =>
                IF w[i].sel < 2
                THEN w'[i] = [w[i] EXCEPT !.sel = @ + 1]
                ELSE /\ w'[i].outcome = "select_stale"
                     /\ w'[i].entries = w[i].entries
                     /\ w'[i].pos = w[i].pos + 1
                     /\ w'[i].pc = IF w'[i].pos < Len(w_chunk[i]) THEN "select" ELSE "quit"
          /\ w[i].pc = "read" /\ Steps(i) /\ faults' = faults =>
                /\ w[i].sel \in 1..3
                /\ w'[i].entries = w[i].entries \o RowsOfCurrent(i)]_vars

C8_Witness ==
    \E i \in WorkerIds :
        /\ w[i].outcome = "select_stale"
        /\ w[i].pos = 1
        /\ w[i].pc = "select"
        /\ w[i].entries = <<>>

IsPrefix(a, b) == Len(a) <= Len(b) /\ SubSeq(b, 1, Len(a)) = a

\* C9: after the setup, a failure while one code is processed costs the rows
\* of that code only: a failing step adds no record and keeps the ones there
\* are, the loop goes from a code to the next one only (never back, never
\* skipping one, each entered at its select), no step of the loop ends in an
\* exception, and the loop ends only behind the last code of the chunk.
C9_ItemFailureIsLocal ==
    [][\A i \in WorkerIds :
          /\ w[i].pc \in {"select", "click", "read"} /\ Steps(i) =>
                /\ w'[i].pc \in {"select", "click", "read", "quit"}
                /\ IsPrefix(w[i].entries, w'[i].entries)
                /\ faults' > faults => w'[i].entries = w[i].entries
                /\ w'[i].pos \in {w[i].pos, w[i].pos + 1}
                /\ w'[i].pos = w[i].pos + 1 =>
                      /\ w'[i].sel = 0
                      /\ w'[i].pc = IF w'[i].pos < Len(w_chunk[i]) THEN "select" ELSE "quit"
                /\ w'[i].pos = w[i].pos => w'[i].pc # "quit"
          /\ w'[i].pc \in {"quit", "returned"} /\ w_chunk[i] # <<>> =>
                w'[i].pos = Len(w_chunk[i])]_vars

C9_Witness ==
    \E i \in WorkerIds :
        /\ w[i].pc = "returned"
        /\ Len(w_chunk[i]) = 2
        /\ w[i].pos = 2
        /\ w[i].outcome = "error"
        /\ w_chunk[i][1] = AKM
        /\ Len(w[i].entries) = 2

\* the rows of rows[from..] that have 14 cells or more and a code that is not excluded
RECURSIVE GoodRows(_, _)
GoodRows(rows, from) ==
    IF from > Len(rows) THEN <<>>
    ELSE (IF Len(rows[from]) >= 14 /\ ~InList(clean_text(rows[from][2]), excluded_codes)
          THEN <<ders_entry(rows[from])>> ELSE <<>>)
         \o GoodRows(rows, from + 1)

\* those rows for every discovered code, the header row of each table left out
RECURSIVE ExpectedRecords(_)
ExpectedRecords(k) ==
    IF k > Len(ders_kodlari) THEN <<>>
    ELSE GoodRows(TableOf(ders_kodlari[k]), 2) \o ExpectedRecords(k + 1)

Count(e, list) == Cardinality({k \in 1..Len(list) : list[k] = e})

SameRecords(a, b) ==
    /\ Len(a) = Len(b)
    /\ \A k \in 1..Len(a) : Count(a[k], a) = Count(a[k], b)

\* C10: without an injected fault the final list holds exactly one record for
\* every result row that has 14 cells or more and a code that is not excluded,
\* over all discovered codes and all workers, in ascending (Kod, CRN) order.
C10_EndToEnd ==
    pc = "done" /\ faults = 0 =>
        /\ SameRecords(all_entries, ExpectedRecords(1))
        /\ Ascending(all_entries)
        /\ csv.rows = all_entries

C10_Witness ==
    /\ pc = "done"
    /\ faults = 0
    /\ WORKER_COUNT = 1
    /\ ders_kodlari = <<AKM, BLG>>
    /\ Len(csv.rows) = 3
    /\ <<csv.rows[1].Kod, csv.rows[1].CRN>> = <<KodA, <<49, 48>>>>
    /\ <<csv.rows[2].Kod, csv.rows[2].CRN>> = <<KodA, <<49, 49>>>>
    /\ <<csv.rows[3].Kod, csv.rows[3].CRN>> = <<KodB, <<53>>>>

Excluded(e) == InList(e.Kod, excluded_codes)

NoneExcluded(list) == \A k \in 1..Len(list) : ~Excluded(list[k])

\* the row of a discovered code's table, as a record, is in the final list
Delivered(cells) == \E k \in 1..Len(all_entries) : all_entries[k] = ders_entry(cells)

\* C11: no record whose Kod is in excluded_codes is ever in the list a read
\* gathers, in a worker's batch, in the merged list or in the file, whatever
\* the faults; and the exclusion costs no other row: in a run without faults
\* every row of 14 cells or more of a discovered code's table whose cleaned
\* code is not excluded is in the final list.
C11_ExcludedNeverAppear ==
    /\ \A i \in WorkerIds : NoneExcluded(w[i].entries) /\ NoneExcluded(w[i].local)
    /\ NoneExcluded(all_entries)
    /\ NoneExcluded(csv.rows)
    /\ pc = "done" /\ faults = 0 =>
          \A k \in 1..Len(ders_kodlari) :
             \A r \in 2..Len(TableOf(ders_kodlari[k])) :
                LET cells == TableOf(ders_kodlari[k])[r]
                IN  Len(cells) >= 14 /\ ~InList(clean_text(cells[2]), excluded_codes)
                       => Delivered(cells)

C11_Witness ==
    /\ pc = "done"
    /\ excluded_codes = <<KodX>>
    /\ ders_kodlari = <<BLG, BLG>>
    /\ Len(csv.rows) = 2
    /\ csv.rows[1].Kod = KodB
    /\ csv.rows[2].Kod = KodB

\* the table the current code of worker i shows
CurrentTable(i) == TableOf(w_chunk[i][w[i].pos + 1])

\* what a step of worker i appended to its batch
Appended(i) == SubSeq(w'[i].entries, Len(w[i].entries) + 1, Len(w'[i].entries))

\* C12: a complete read of a table gives nothing for the first (header) row and
\* nothing for a row of fewer than 14 cells, and goes on behind such a row:
\* what it appends is, in table order, the record of every later row that has
\* 14 cells or more and a code that is not excluded.
C12_ShortRowsSkipped ==
    [][\A i \in WorkerIds :
          w[i].pc = "read" /\ Steps(i) /\ faults' = faults =>
              /\ IsPrefix(w[i].entries, w'[i].entries)
              /\ Appended(i) = GoodRows(CurrentTable(i), 2)]_vars

C12_Witness ==
    \E i \in WorkerIds :
        /\ w[i].outcome = "fetched"
        /\ w[i].pos = 1
        /\ w_chunk[i][1] = AKM
        /\ Len(w[i].entries) = 2
        /\ w[i].entries[2].CRN = <<49, 49>>

\* the fields of a record other than Bina
PlainFields(e) ==
    {e.Kod, e.Ders, e.Yontem, e.Egitmen, e.Gun, e.Saat, e.Kayitli, e.Kontenjan,
     e.Sinirlama, e.CRN}

\* cleaning the field again changes nothing
Normalized(f) == clean_text(f) = f

RecordsRead == UNION {Range(w[i].entries) : i \in WorkerIds} \cup Range(all_entries)

\* C13: every field of every record a table read produced is a fixed point of
\* clean_text, the Bina field (two cleaned cells joined by " / ") included,
\* also when one or both of its cells are empty.
C13_FieldsNormalized ==
    \A e \in RecordsRead :
        /\ \A f \in PlainFields(e) : Normalized(f)
        /\ Normalized(e.Bina)

\* the same for the fields other than Bina only
C13_PlainFieldsNormalized ==
    \A e \in RecordsRead : \A f \in PlainFields(e) : Normalized(f)

\* the rows of rows[from..] that give a record, as their cell texts
RECURSIVE GoodCells(_, _)
GoodCells(rows, from) ==
    IF from > Len(rows) THEN <<>>
    ELSE (IF Len(rows[from]) >= 14 /\ ~InList(clean_text(rows[from][2]), excluded_codes)
          THEN <<rows[from]>> ELSE <<>>)
         \o GoodCells(rows, from + 1)

\* the two known values and their labels
LabelOf(value) ==
    IF value = FizikselRaw THEN Fiziksel
    ELSE IF value = SanalRaw THEN Online
    ELSE value

\* every record a complete read appends has the delivery mode that map gives
\* for the text of cell 3 of its row
ModesAre(map(_)) ==
    \A i \in WorkerIds :
        w[i].pc = "read" /\ Steps(i) /\ faults' = faults =>
            LET cellsOf == GoodCells(CurrentTable(i), 2)
            IN  /\ Len(Appended(i)) = Len(cellsOf)
                /\ \A k \in 1..Len(cellsOf) : Appended(i)[k].Yontem = map(cellsOf[k][4])

\* C14 as stated: the delivery mode is "Fiziksel" for the raw cell text
\* "Fiziksel (Yüz yüze)", "Online" for "Sanal (Çevrimiçi/Online)", and the raw
\* cell text itself for every other text.
C14_Original == [][ModesAre(LabelOf)]_vars

CleanLabelOf(value) == LabelOf(clean_text(value))

\* C14 amended: the delivery mode is "Fiziksel" when the cleaned cell text
\* (stripped, newlines replaced by " / ") is "Fiziksel (Yüz yüze)", "Online" when
\* it is "Sanal (Çevrimiçi/Online)", and the cleaned cell text otherwise.
C14_DeliveryMode == [][ModesAre(CleanLabelOf)]_vars

C14_Witness ==
    \E i \in WorkerIds :
        /\ w[i].outcome = "fetched"
        /\ w_chunk[i] = <<AKM, BLG>>
        /\ w[i].pos = 2
        /\ excluded_codes = <<KodX>>
        /\ w[i].entries[1].Yontem = Fiziksel
        /\ w[i].entries[2].Yontem = <<72, SP, SLASH, SP, 73>>
        /\ w[i].entries[3].Yontem = Online

\* the dropdown has an option with a value
Populated == \E k \in 1..Len(options) : options[k].value # <<>>

InDiscovery == pc \in {"d_create", "d_body", "d_quit", "d_quit_exc"}

\* C15: when the dropdown of the course codes is never populated,
\* get_all_course_codes ends with an error that ends the run and never returns
\* (an empty list); and its driver is closed before it returns or fails.
C15_UnpopulatedIsFatal ==
    /\ ~InDiscovery /\ ~Populated => pc = "crashed"
    /\ ~InDiscovery /\ d_drv # "none" => d_drv = "closed"

Finished(i) == w[i].pc \in {"returned", "raised"}

\* C16: the sort and the write start only when no scrape_chunk call is running:
\* then every launched worker has returned, its whole batch appended to
\* all_entries, or has raised and was caught; until then all_entries holds
\* exactly the batches handled so far and no file is written.
C16_FullJoin ==
    /\ pc \in {"write", "done"} =>
          /\ \A i \in Started : Finished(i)
          /\ Range(handled) = launched
    /\ pc \in {"join", "write"} /\ launched # {} => all_entries = Batches(handled)
    /\ pc = "write" /\ launched = {} /\ Started # {} => all_entries = w[0].entries
    /\ \A k \in 1..Len(handled) : Finished(handled[k])
    /\ csv.written => pc = "done"

C16_Witness ==
    /\ pc = "write"
    /\ Cardinality(launched) = 2
    /\ \E i, j \in launched :
          /\ w[i].pc = "raised"
          /\ w[j].pc = "returned"
          /\ w[j].entries # <<>>
          /\ all_entries = w[j].entries

\* worker i takes a step and stays with its current code
StaysOnItem(i) == Steps(i) /\ w'[i].pos = w[i].pos

\* C17: a code goes through select, click, read in this order: the click starts
\* only after a select that succeeded and the read only after a click that
\* succeeded, for the same code; a stale error repeats the step it hit and
\* nothing before it (the selects and clicks made stay as they are); and no
\* code sees more than 3 selects, 3 clicks or 3 reads.
C17_ItemStateMachine ==
    [][\A i \in WorkerIds :
          /\ w[i].pc = "select" =>
                /\ w[i].sel <= 2 /\ w[i].clk = 0 /\ w[i].rd = 0
                /\ StaysOnItem(i) =>
                      /\ w'[i].pc \in {"select", "click"}
                      /\ w'[i].sel = w[i].sel + 1
                      /\ w'[i].pc = "click" <=> faults' = faults
          /\ w[i].pc = "click" =>
                /\ w[i].sel \in 1..3 /\ w[i].clk <= 2 /\ w[i].rd = 0
                /\ StaysOnItem(i) =>
                      /\ w'[i].pc \in {"click", "read"}
                      /\ w'[i].sel = w[i].sel
                      /\ w'[i].clk = w[i].clk + 1
                      /\ w'[i].pc = "read" <=> faults' = faults
          /\ w[i].pc = "read" =>
                /\ w[i].sel \in 1..3 /\ w[i].clk \in 1..3 /\ w[i].rd <= 2
                /\ StaysOnItem(i) =>
                      /\ w'[i].pc = "read"
                      /\ w'[i].sel = w[i].sel
                      /\ w'[i].clk = w[i].clk
                      /\ w'[i].rd = w[i].rd + 1
                      /\ faults' > faults
          /\ Steps(i) /\ w'[i].pos # w[i].pos =>
                /\ w'[i].pos = w[i].pos + 1
                /\ w'[i].sel = 0 /\ w'[i].clk = 0 /\ w'[i].rd = 0
                /\ w'[i].pc \in {"select", "quit"}]_vars

C17_Witness ==
    \E i \in WorkerIds :
        /\ w[i].pc = "read"
        /\ w[i].sel = 2
        /\ w[i].clk = 2
        /\ w[i].rd = 1

\* C18: when get_all_course_codes returns the empty list the run does nothing
\* and ends normally: no scrape_chunk call is made, no worker driver is
\* created, the record list stays empty and no file is written; main is left
\* abnormally with an empty list only when the discovery itself failed. In
\* every run the file is written exactly when the merged list is not empty.
C18_EmptyIsNoOp ==
    /\ ~InDiscovery /\ ders_kodlari = <<>> =>
          /\ Started = {}
          /\ \A i \in WorkerIds : drv[i] = "none"
          /\ all_entries = <<>>
          /\ ~csv.written
          /\ pc \in {"branch", "write", "done", "crashed"}
          /\ pc = "crashed" => faults > 0
    /\ pc = "done" => (csv.written <=> all_entries # <<>>)
    /\ pc # "done" => ~csv.written
    /\ csv.written => csv.rows = all_entries

C18_Witness ==
    /\ pc = "done"
    /\ ders_kodlari = <<>>
    /\ d_drv = "closed"
    /\ faults = 0
    /\ ~csv.written

\* C19: a read that goes stale part-way gives nothing: the failing attempt
\* adds no record, the rows it had gathered (a part of the table's rows) are
\* dropped, and the attempt that succeeds after it appends the rows of one
\* whole pass over the table, each once; the third stale read leaves the code
\* without any record.
C19_WholePassOnly ==
    [][\A i \in WorkerIds :
          w[i].pc = "read" /\ Steps(i) =>
              /\ IsPrefix(w[i].local, GoodRows(CurrentTable(i), 2))
              /\ faults' > faults => w'[i].entries = w[i].entries
              /\ faults' = faults =>
                    w'[i].entries = w[i].entries \o GoodRows(CurrentTable(i), 2)
              /\ faults' > faults /\ w[i].rd = 2 =>
                    /\ w'[i].pos = w[i].pos + 1
                    /\ w'[i].outcome \in {"read_stale", "error"}
                    /\ w'[i].local = <<>>]_vars

C19_Witness ==
    \E i \in WorkerIds :
        /\ w[i].pc = "read"
        /\ w[i].rd = 2
        /\ w[i].local # <<>>
        /\ w[i].entries = <<>>

\* main and every worker are at their end, with no driver left open
AllEnded ==
    /\ pc \in {"done", "crashed"}
    /\ \A i \in WorkerIds :
          /\ w[i].pc \in {"idle", "returned", "raised"}
          /\ drv[i] # "open"

====
